---- MODULE Spec2Model ----
(***************************************************************************)
(* Model of skimage/viewer/widgets/core.py: BaseWidget, Slider, ComboBox.  *)
(*                                                                         *)
(* Numbers.  The widget's floats (low, high, scale, val, the parsed text)  *)
(* are decimal fixed-point numbers counted in thousandths: 7.5 is 7500.    *)
(* The ranges drawn below have (high - low) a multiple of 1000             *)
(* thousandths, so scale = (high - low)/1000 and val = step*scale + low    *)
(* are exact, and floats are compared as these decimal numbers.  Binary64  *)
(* rounding is modelled where it changes a whole number: the truncation of *)
(* (value - low)/scale to a slider step is a choice between the exact      *)
(* quotient and one below it (env.ulp).                                    *)
(*                                                                         *)
(* Text.  The content of the edit box is a sequence of one-character       *)
(* strings; str(), '%2.2f' and float() are computed character by           *)
(* character.                                                              *)
(*                                                                         *)
(* Qt.  Signals are delivered synchronously to the slots in self.conn      *)
(* (Emit); an exception raised in a slot is reported and swallowed at the  *)
(* slot boundary.                                                          *)
(***************************************************************************)
EXTENDS Integers, Sequences, FiniteSets, TLC

VARIABLES
    pc,         \* "new" before a constructor has run, then "ready" or "error"
    self,       \* the widget's fields and the state of its Qt controls
    trigger,    \* the update_on argument the Slider was built with
    calls,      \* the callback's invocations during the last event
    exc,        \* the exception the last event ended with or reported
    event       \* the last event and its input

vars == <<pc, self, trigger, calls, exc, event>>

None == "None"

\* ------------------------------------------------------------------ bounds

\* Depth of nested slot invocations after which Python gives up
\* (RuntimeError: maximum recursion depth exceeded).
MaxDepth == 6

\* Longest item list a ComboBox is built from.
MaxItems == 3

\* --------------------------------------------------------------- constants

slider_min == 0

slider_max == 1000

\* the default taken at the bottom of the range instead of its middle
default_value_low == slider_min

default_value == 500

\* ----------------------------------------------------------- text <-> float

Abs(n) == IF n < 0 THEN -n ELSE n

DigitChars == <<"0", "1", "2", "3", "4", "5", "6", "7", "8", "9">>

IsDigit(c) == \E i \in 1..10 : DigitChars[i] = c

DigitVal(c) == (CHOOSE i \in 1..10 : DigitChars[i] = c) - 1

RECURSIVE Digits(_)
\* decimal digits of a natural number, most significant first
Digits(n) == IF n < 10 THEN <<DigitChars[n + 1]>>
             ELSE Append(Digits(n \div 10), DigitChars[(n % 10) + 1])

\* the fractional part of str(float): thousandths without trailing zeros,
\* at least one digit
FracDigits(f) ==
    IF f % 100 = 0 THEN <<DigitChars[(f \div 100) + 1]>>
    ELSE IF f % 10 = 0
         THEN <<DigitChars[(f \div 100) + 1], DigitChars[((f \div 10) % 10) + 1]>>
         ELSE <<DigitChars[(f \div 100) + 1], DigitChars[((f \div 10) % 10) + 1],
                DigitChars[(f % 10) + 1]>>

\* str(value) of a float (Python 2: '%.12g', and ".0" for a whole number)
Str(v) ==
    (IF v < 0 THEN <<"-">> ELSE <<>>)
        \o Digits(Abs(v) \div 1000) \o <<".">> \o FracDigits(Abs(v) % 1000)

\* s[:n]
Prefix(s, n) == SubSeq(s, 1, IF Len(s) < n THEN Len(s) ELSE n)

\* str(value)[:4]
Str4(v) == Prefix(Str(v), 4)

\* '%2.2f' % value: two decimals, rounded; a decimal tie (a 5 in the third
\* place) goes the way the binary value of the float lies (tie = 0 down,
\* 1 up)
Fmt2f(v, tie) ==
    LET a == Abs(v)
        c == IF a % 10 > 5 \/ (a % 10 = 5 /\ tie = 1) THEN (a \div 10) + 1
             ELSE a \div 10
    IN (IF v < 0 THEN <<"-">> ELSE <<>>)
           \o Digits(c \div 100) \o <<".">>
           \o <<DigitChars[((c \div 10) % 10) + 1], DigitChars[(c % 10) + 1]>>

RECURSIVE NatOf(_)
\* the number a sequence of digits writes
NatOf(ds) == IF ds = <<>> THEN 0
             ELSE 10 * NatOf(SubSeq(ds, 1, Len(ds) - 1)) + DigitVal(ds[Len(ds)])

AllDigits(s) == \A i \in 1..Len(s) : IsDigit(s[i])

\* thousandths written by the digits after the point (exact up to three)
FracOf(ds) ==
    LET d(i) == IF i <= Len(ds) THEN DigitVal(ds[i]) ELSE 0
    IN 100 * d(1) + 10 * d(2) + d(3)

\* float(text) over the characters 0-9 . - and letters that start no float:
\* [-] digits [. [digits]]  or  [-] . digits ; anything else is a ValueError
ParseFloat(t) ==
    LET neg  == Len(t) > 0 /\ t[1] = "-"
        body == IF neg THEN Tail(t) ELSE t
        dots == {i \in 1..Len(body) : body[i] = "."}
        p    == IF dots = {} THEN Len(body) + 1
                ELSE CHOOSE i \in dots : \A j \in dots : i <= j
        ip   == SubSeq(body, 1, p - 1)
        fp   == SubSeq(body, p + 1, Len(body))
        ok   == /\ Cardinality(dots) <= 1
                /\ AllDigits(ip) /\ AllDigits(fp)
                /\ Len(ip) + Len(fp) > 0
        mag  == 1000 * NatOf(ip) + FracOf(fp)
    IN IF ok THEN [ok |-> TRUE, v |-> IF neg THEN -mag ELSE mag]
       ELSE [ok |-> FALSE, v |-> 0]

\* ------------------------------------------------------ Python and Qt values

\* a Python value handed to the callback or returned by a property: its type
\* and its value (a float's in thousandths)
PyFloat(x) == [t |-> "float", v |-> x]

PyInt(k) == [t |-> "int", v |-> k]

PyRaise(name) == [t |-> "raise", v |-> name]

PyNone == [t |-> "None", v |-> 0]

NoExc == [type |-> "none", param |-> "", value |-> ""]

ValueError(param, value) == [type |-> "ValueError", param |-> param, value |-> value]

ZeroDivisionError == [type |-> "ZeroDivisionError", param |-> "", value |-> ""]

RuntimeError == [type |-> "RuntimeError", param |-> "", value |-> ""]

\* int(x) of a float counted in thousandths: truncation toward zero, as the
\* binding converts a float handed to QSlider.setValue(int)
IntOf(x) == IF x < 0 THEN -((-x) \div 1000) ELSE x \div 1000

\* int(a / b) for floats a >= 0, b > 0: a quotient that is a whole number q
\* may come out of the binary division just below q and truncate to q - 1
IntOfQuotient(a, b, ulp) ==
    IF a % b = 0 /\ a > 0 THEN (a \div b) - ulp ELSE a \div b

\* the object before its constructor has run
Blank ==
    [cls |-> None, name |-> "", ptype |-> "", _scale |-> 0, _low |-> 0,
     _high |-> 0, slider |-> 0, sliderDown |-> FALSE,
     text |-> <<>>, style |-> None, conn |-> {}, items |-> <<>>, index |-> -1]

\* the running handler's world: the object, the callback invocations and the
\* exception reported so far, and the rounding of a float division
Env(obj, ulp) == [self |-> obj, calls |-> <<>>, exc |-> NoExc, ulp |-> ulp]

\* ------------------------------------------------------------- BaseWidget

\* self.callback(self.name, value)
callback(e, value) ==
    [e EXCEPT !.calls = Append(@, [name |-> e.self.name, value |-> value])]

\* BaseWidget._value_changed
_value_changed(e, value) == callback(e, value)

\* ------------------------------------------------------------------ Slider

\* Slider.val
val(obj) == PyFloat(obj.slider * obj._scale + obj._low)

GoodStyle == "background-color: rgb(255, 255, 255)"

BadStyle == "background-color: rgb(255, 200, 200)"

_good_editbox_input(e) == [e EXCEPT !.self.style = GoodStyle]

_bad_editbox_input(e) == [e EXCEPT !.self.style = BadStyle]

RECURSIVE Emit(_, _, _, _)

\* QLineEdit.setText: textChanged is emitted when the text differs;
\* editingFinished is not
QLineEdit_setText(e, t, fuel) ==
    IF t = e.self.text THEN e
    ELSE Emit([e EXCEPT !.self.text = t], "editbox.textChanged", PyInt(0), fuel)

\* setValue on a slider whose range was never set to [slider_min, slider_max]
QSlider_setValue_unclamped(e, n, fuel) ==
    IF n = e.self.slider THEN e
    ELSE Emit([e EXCEPT !.self.slider = n], "slider.valueChanged", PyInt(n), fuel)

\* QSlider.setValue: the value is kept inside the range set by setRange and
\* valueChanged is emitted when it differs
QSlider_setValue(e, n, fuel) ==
    LET m == IF n < slider_min THEN slider_min
             ELSE IF n > slider_max THEN slider_max ELSE n
    IN IF m = e.self.slider THEN e
       ELSE Emit([e EXCEPT !.self.slider = m], "slider.valueChanged", PyInt(m), fuel)

\* the handler without the edit box's update
_on_slider_changed_notext(e, fuel) == callback(e, val(e.self))

\* Slider._on_slider_changed
_on_slider_changed(e, fuel) ==
    LET value == val(e.self)
    IN callback(QLineEdit_setText(e, Str4(value.v), fuel), value)

\* the handler with the range checked against high alone
_on_editbox_changed_nolow(e, fuel) ==
    LET parsed == ParseFloat(e.self.text)
        value  == parsed.v
    IN IF ~parsed.ok THEN _bad_editbox_input(e)
       ELSE IF ~(value <= e.self._high) THEN _bad_editbox_input(e)
       ELSE IF e.self._scale = 0 THEN [e EXCEPT !.exc = ZeroDivisionError]
       ELSE LET slider_value == IntOfQuotient(value - e.self._low, e.self._scale, e.ulp)
            IN _good_editbox_input(QSlider_setValue(e, slider_value, fuel))

\* the handler with the step taken from value / scale, low forgotten
_on_editbox_changed_nooffset(e, fuel) ==
    LET parsed == ParseFloat(e.self.text)
        value  == parsed.v
    IN IF ~parsed.ok THEN _bad_editbox_input(e)
       ELSE IF ~(e.self._low <= value /\ value <= e.self._high)
            THEN _bad_editbox_input(e)
       ELSE IF e.self._scale = 0 THEN [e EXCEPT !.exc = ZeroDivisionError]
       ELSE LET slider_value == IntOfQuotient(Abs(value), e.self._scale, e.ulp)
                signed       == IF value < 0 THEN -slider_value ELSE slider_value
            IN _good_editbox_input(QSlider_setValue(e, signed, fuel))

\* Slider._on_editbox_changed
_on_editbox_changed(e, fuel) ==
    LET parsed == ParseFloat(e.self.text)
        value  == parsed.v
    IN IF ~parsed.ok THEN _bad_editbox_input(e)
       ELSE IF ~(e.self._low <= value /\ value <= e.self._high)
            THEN _bad_editbox_input(e)
       ELSE IF e.self._scale = 0 THEN [e EXCEPT !.exc = ZeroDivisionError]
       ELSE LET slider_value == IntOfQuotient(value - e.self._low, e.self._scale, e.ulp)
            IN _good_editbox_input(QSlider_setValue(e, slider_value, fuel))

\* a signal's delivery: each connected slot runs before emit returns; a slot
\* nested deeper than the interpreter allows fails with RuntimeError
Emit(e, signal, arg, fuel) ==
    LET slots == {c[2] : c \in {c \in e.self.conn : c[1] = signal}}
    IN IF slots = {} THEN e
       ELSE IF fuel = 0 THEN [e EXCEPT !.exc = RuntimeError]
       ELSE LET slot == CHOOSE x \in slots : TRUE
            IN CASE slot = "_on_slider_changed"  -> _on_slider_changed(e, fuel - 1)
                 [] slot = "_on_editbox_changed" -> _on_editbox_changed(e, fuel - 1)
                 [] slot = "_value_changed"      -> _value_changed(e, arg)

connect(e, signal, slot) == [e EXCEPT !.self.conn = @ \cup {<<signal, slot>>}]

\* Slider.__init__, lines 86-100: the orientation picks the layout and the
\* alignments, which no handler reads, or is refused with ValueError
set_orientation(e, orientation) ==
    IF orientation = "vertical" THEN e
    ELSE IF orientation = "horizontal" THEN e
    ELSE [e EXCEPT !.exc = ValueError("orientation", orientation)]

\* the update trigger accepted whatever it is
connect_update_on_silent(e, update_on) ==
    IF update_on = "release"
    THEN connect(e, "slider.sliderReleased", "_on_slider_changed")
    ELSE connect(e, "slider.valueChanged", "_on_slider_changed")

\* 'release' wired to valueChanged as well
connect_update_on_both(e, update_on) ==
    IF update_on = "move" THEN connect(e, "slider.valueChanged", "_on_slider_changed")
    ELSE IF update_on = "release"
         THEN connect(connect(e, "slider.valueChanged", "_on_slider_changed"),
                      "slider.sliderReleased", "_on_slider_changed")
    ELSE [e EXCEPT !.exc = ValueError("update_on", update_on)]

\* Slider.__init__, lines 105-110: the signal that drives the callback
connect_update_on(e, update_on) ==
    IF update_on = "move" THEN connect(e, "slider.valueChanged", "_on_slider_changed")
    ELSE IF update_on = "release"
         THEN connect(e, "slider.sliderReleased", "_on_slider_changed")
    ELSE [e EXCEPT !.exc = ValueError("update_on", update_on)]

\* the edit box's handler wired to textChanged
make_editbox_textChanged(e, tie) ==
    connect(QLineEdit_setText(e, Fmt2f(val(e.self).v, tie), MaxDepth),
            "editbox.textChanged", "_on_editbox_changed")

\* Slider.__init__, lines 116-120: the edit box and its signal
make_editbox(e, tie) ==
    connect(QLineEdit_setText(e, Fmt2f(val(e.self).v, tie), MaxDepth),
            "editbox.editingFinished", "_on_editbox_changed")

\* Slider.__init__; value is None or a float
Slider_init(name, low, high, value, orientation, update_on, tie) ==
    LET v  == IF value = PyNone THEN default_value ELSE IntOf(value.v)
        e0 == Env([Blank EXCEPT !.cls = "Slider", !.name = name, !.ptype = "kwarg",
                                !._scale = (high - low) \div slider_max,
                                !._low = low, !._high = high], 0)
        e1 == set_orientation(e0, orientation)
        e2 == QSlider_setValue(e1, v, MaxDepth)
        e3 == connect_update_on(e2, update_on)
    IN IF e1.exc # NoExc THEN e1
       ELSE IF e3.exc # NoExc THEN e3
       ELSE make_editbox(e3, tie)

\* ---------------------------------------------------------------- ComboBox

\* QComboBox.addItems: the first item added to an empty box becomes current
QComboBox_addItems(e, items, fuel) ==
    LET e1 == [e EXCEPT !.self.items = @ \o items]
    IN IF e.self.index = -1 /\ Len(e1.self.items) > 0
       THEN Emit([e1 EXCEPT !.self.index = 0], "_combo_box.currentIndexChanged",
                 PyInt(0), fuel)
       ELSE e1

\* QComboBox.setCurrentIndex, as the user's choice in the list does it:
\* currentIndexChanged(int) is emitted when the index differs
QComboBox_setCurrentIndex(e, k, fuel) ==
    IF k = e.self.index THEN e
    ELSE Emit([e EXCEPT !.self.index = k], "_combo_box.currentIndexChanged",
              PyInt(k), fuel)

\* ComboBox.__init__
ComboBox_init(name, items) ==
    LET e0 == Env([Blank EXCEPT !.cls = "ComboBox", !.name = name, !.ptype = "kwarg"], 0)
    IN connect(QComboBox_addItems(e0, items, MaxDepth),
               "_combo_box.currentIndexChanged", "_value_changed")

\* ComboBox.val: QComboBox has no method value()
ComboBox_val(obj) == PyRaise("AttributeError")

\* ------------------------------------------------------------------ inputs

\* (low, high) in thousandths: 0..1, 0..10, 2000..10000, -9.6..0.4 and the
\* degenerate 1..1 and 10..0
Ranges ==
    {<<0, 1000>>, <<0, 10000>>, <<2000000, 10000000>>, <<-9600, 400>>,
     <<1000, 1000>>, <<10000, 0>>}

\* the constructor's value: None, or a float in thousandths
\* (0.3, 7.5, 750.0, 2000.0, -3.0)
Values ==
    {PyNone, PyFloat(300), PyFloat(7500), PyFloat(750000), PyFloat(2000000),
     PyFloat(-3000)}

Orientations == {"horizontal", "vertical", "diagonal"}

UpdateOns == {"move", "release", "drag"}

\* where a drag can put the handle
DragSteps == {0, 250, 750, 999, 1000}

\* what the user types: 0.5 0.756 7.5 -5 1 3000 abc and nothing
Texts ==
    {<<"0", ".", "5">>, <<"0", ".", "7", "5", "6">>, <<"7", ".", "5">>,
     <<"-", "5">>, <<"1">>, <<"3", "0", "0", "0">>, <<"a", "b", "c">>, <<>>}

ItemPool == {"mean", "median"}

ItemLists == UNION {[1..n -> ItemPool] : n \in 0..MaxItems}

NoEvent == [kind |-> "none", pos |-> 0, text |-> <<>>]

\* ----------------------------------------------------------------- actions

Init ==
    /\ pc = "new"
    /\ self = Blank
    /\ trigger = None
    /\ calls = <<>>
    /\ exc = NoExc
    /\ event = NoEvent

\* what a handler leaves behind
Lands(e) ==
    /\ self' = e.self
    /\ calls' = e.calls
    /\ exc' = e.exc

\* Slider(name, low, high, value, orientation=..., update_on=...)
NewSlider ==
    /\ pc = "new"
    /\ \E r \in Ranges, value \in Values, orientation \in Orientations,
          upd \in UpdateOns, tie \in {0, 1} :
          LET e == Slider_init("sigma", r[1], r[2], value, orientation, upd, tie)
          IN /\ Lands(e)
             /\ pc' = IF e.exc = NoExc THEN "ready" ELSE "error"
             /\ trigger' = upd
             /\ event' = [kind |-> "Slider", pos |-> 0,
                          text |-> <<value.t, orientation, upd>>]

\* ComboBox(name, items)
NewComboBox ==
    /\ pc = "new"
    /\ \E items \in ItemLists :
          /\ Lands(ComboBox_init("method", items))
          /\ pc' = "ready"
          /\ event' = [kind |-> "ComboBox", pos |-> 0, text |-> <<>>]
    /\ UNCHANGED trigger

IsSlider == pc = "ready" /\ self.cls = "Slider"

IsComboBox == pc = "ready" /\ self.cls = "ComboBox"

\* the user presses the mouse button on the handle
SliderPress ==
    /\ IsSlider /\ ~self.sliderDown
    /\ Lands(Env([self EXCEPT !.sliderDown = TRUE], 0))
    /\ event' = [kind |-> "press", pos |-> 0, text |-> <<>>]
    /\ UNCHANGED <<pc, trigger>>

\* the user drags the handle to another position
SliderMove ==
    /\ IsSlider /\ self.sliderDown
    /\ \E p \in DragSteps :
          /\ p # self.slider
          /\ Lands(QSlider_setValue(Env(self, 0), p, MaxDepth))
          /\ event' = [kind |-> "move", pos |-> p, text |-> <<>>]
    /\ UNCHANGED <<pc, trigger>>

\* the user lets the handle go
SliderRelease ==
    /\ IsSlider /\ self.sliderDown
    /\ Lands(Emit(Env([self EXCEPT !.sliderDown = FALSE], 0),
                  "slider.sliderReleased", PyInt(0), MaxDepth))
    /\ event' = [kind |-> "release", pos |-> 0, text |-> <<>>]
    /\ UNCHANGED <<pc, trigger>>

\* the user leaves t in the edit box (typed, the text as it stands, or the
\* value written out in full) and commits it with Return or by leaving the box
TextCommit ==
    /\ IsSlider /\ ~self.sliderDown
    /\ \E t \in Texts \cup {self.text, Str(val(self).v)}, ulp \in {0, 1} :
          /\ Lands(Emit(Env([self EXCEPT !.text = t], ulp),
                        "editbox.editingFinished", PyInt(0), MaxDepth))
          /\ event' = [kind |-> "commit", pos |-> 0, text |-> t]
    /\ UNCHANGED <<pc, trigger>>

\* the user picks entry k of the list
Select ==
    /\ IsComboBox
    /\ \E k \in 0..(Len(self.items) - 1) :
          /\ Lands(QComboBox_setCurrentIndex(Env(self, 0), k, MaxDepth))
          /\ event' = [kind |-> "select", pos |-> k, text |-> <<>>]
    /\ UNCHANGED <<pc, trigger>>

Next ==
    \/ NewSlider
    \/ NewComboBox
    \/ SliderPress
    \/ SliderMove
    \/ SliderRelease
    \/ TextCommit
    \/ Select

Spec == Init /\ [][Next]_vars

\* ------------------------------------------------------------------ claims

\* float(t) fails or lies outside [low, high]
Rejected(obj, t) ==
    LET parsed == ParseFloat(t)
    IN ~parsed.ok \/ parsed.v < obj._low \/ parsed.v > obj._high

\* the one invocation callback(name, val) of the widget as it stands
OneCall(obj) == <<[name |-> obj.name, value |-> val(obj)]>>

\* C1: a committed text that does not parse as a float, or parses outside
\* [low, high], sets the error indicator, invokes no callback and leaves the
\* step, hence val, as it was.
C1_RejectedCommit ==
    [][(event'.kind = "commit" /\ Rejected(self, event'.text))
        => /\ self'.style = BadStyle
           /\ calls' = <<>>
           /\ self'.slider = self.slider
           /\ val(self') = val(self)]_vars

\* a parsable text above high was committed with the handle away from its
\* default: refused, the step kept
C1_Witness ==
    /\ event.kind = "commit"
    /\ ParseFloat(event.text).ok /\ ParseFloat(event.text).v > self._high
    /\ self.style = BadStyle
    /\ self.slider = 750

\* n is a step nearest to (v - low)/scale
IsNearestStep(n, obj, v) ==
    \A m \in slider_min..slider_max :
        Abs(n * obj._scale + obj._low - v) <= Abs(m * obj._scale + obj._low - v)

\* C2: under either update trigger and from any step, a committed text that
\* parses to v in [low, high] puts the slider at the step nearest to
\* (v - low)/scale, clears the error indicator and fires the callback with
\* (name, val).
C2_AcceptedCommit ==
    [][(event'.kind = "commit" /\ ~Rejected(self, event'.text))
        => /\ IsNearestStep(self'.slider, self, ParseFloat(event'.text).v)
           /\ self'.style = GoodStyle
           /\ calls' = OneCall(self')]_vars

\* ComboBox.val is the string x
ComboBoxValIs(obj, x) == ComboBox_val(obj).t = "str" /\ ComboBox_val(obj).v = x

\* C3: a ComboBox built from a non-empty item list has val = items[0]; after
\* the user selects items[k], val = items[k] and the callback has been
\* invoked exactly once, with (name, items[k]).
C3_ComboBoxVal ==
    (IsComboBox /\ Len(self.items) > 0)
        => /\ event.kind = "ComboBox" => ComboBoxValIs(self, self.items[1])
           /\ event.kind = "select"
                => /\ ComboBoxValIs(self, self.items[event.pos + 1])
                   /\ Len(calls) = 1
                   /\ calls[1].name = self.name
                   /\ calls[1].value.t = "str"
                   /\ calls[1].value.v = self.items[event.pos + 1]

C6_ConfigErrors ==
    event.kind = "Slider"
        => LET orientation == event.text[2]
               upd         == event.text[3]
               okOrient    == orientation \in {"horizontal", "vertical"}
               okUpdate    == upd \in {"move", "release"}
           IN /\ (pc = "ready") <=> (okOrient /\ okUpdate)
              /\ pc \in {"ready", "error"}
              /\ pc = "ready" => exc = NoExc
              /\ ~okOrient => exc = ValueError("orientation", orientation)
              /\ (okOrient /\ ~okUpdate) => exc = ValueError("update_on", upd)

\* a construction refused for its update trigger alone
C6_Witness ==
    /\ event.kind = "Slider" /\ pc = "error"
    /\ event.text[2] = "vertical"
    /\ exc = ValueError("update_on", "drag")

\* the texts the program or a caller writes for the float v
Reprs(v) == {Str(v), Str4(v), Fmt2f(v, 0), Fmt2f(v, 1)}

C8_UpdateTrigger ==
    IsSlider
        => /\ (trigger = "move" /\ event.kind = "move") => calls = OneCall(self)
           /\ (trigger = "release" /\ event.kind = "move") => calls = <<>>
           /\ (trigger = "release" /\ event.kind = "release") => calls = OneCall(self)
           /\ (trigger = "release" /\ calls # <<>>) => event.kind = "release"

\* a handle dragged to step 750 and released under 'release'
C8_Witness ==
    /\ IsSlider /\ trigger = "release" /\ event.kind = "release"
    /\ self.slider = 750
    /\ calls = OneCall(self)

\* the example of C9: 'sigma' over 0.0..10.0 at step 750 reports 7.5
SigmaExample(obj, cs) ==
    (obj.name = "sigma" /\ obj._low = 0 /\ obj._high = 10000 /\ obj.slider = 750)
        => cs = <<[name |-> "sigma", value |-> PyFloat(7500)]>>

\* C9 as stated: whenever a drag changes the slider's position, the edit box
\* shows str(val)[:4] of the new val and the callback fires with (name, val).
C9_SyncOnEveryMove ==
    (IsSlider /\ event.kind = "move")
        => /\ self.text = Str4(val(self).v)
           /\ calls = OneCall(self)
           /\ SigmaExample(self, calls)

\* C9 as amended: whenever the slider-change handler runs, which under 'move'
\* is at every position change of a drag and under 'release' at the release,
\* the edit box shows str(val)[:4] of the current val and the callback fires
\* with (name, val).
C9_SyncWhenHandled ==
    (IsSlider /\ \/ (trigger = "move" /\ event.kind = "move")
                 \/ (trigger = "release" /\ event.kind = "release"))
        => /\ self.text = Str4(val(self).v)
           /\ calls = OneCall(self)
           /\ SigmaExample(self, calls)

\* 'sigma' over 0.0..10.0 dragged to step 750 under 'move'
C9_Witness ==
    /\ IsSlider /\ trigger = "move" /\ event.kind = "move"
    /\ self._low = 0 /\ self._high = 10000 /\ self.slider = 750
    /\ self.text = <<"7", ".", "5">>
    /\ calls = <<[name |-> "sigma", value |-> PyFloat(7500)]>>

\* C10: one user event on a Slider (a position change, a release, a text
\* commit) invokes the callback at most once and ends without the two
\* handlers having called each other until the interpreter gave up.
C10_NoFeedbackLoop ==
    (IsSlider /\ event.kind \in {"press", "move", "release", "commit"})
        => /\ Len(calls) <= 1
           /\ exc # RuntimeError

\* a text commit under 'move' that moved the slider: the slider-change
\* handler ran inside the text-commit handler, once
C10_Witness ==
    /\ IsSlider /\ trigger = "move" /\ event.kind = "commit"
    /\ self.style = GoodStyle
    /\ Len(calls) = 1
    /\ self.text # event.text

====
